---- MODULE Spec2Model ----
(***************************************************************************)
(* Model of src/src/pages/Index.tsx: the Index component of the Eco-Waste  *)
(* Assistant.  State is the component's useState cells plus the network    *)
(* (outbound calls and the suspended handleSendMessage invocations) and    *)
(* the wall clock read by Date.now().  Every action is one browser event   *)
(* handler, one effect, or one continuation of the async handler after an  *)
(* await: React renders synchronously between two such steps, so each      *)
(* handler sees the state left by the previous step.                      *)
(*                                                                         *)
(* Strings are sequences of one-character strings so that String.trim()   *)
(* is computed, not assumed.  Message ids are the integers whose decimal   *)
(* rendering (Number.toString, injective) the code stores.                *)
(***************************************************************************)
EXTENDS Integers, Sequences, FiniteSets, TLC

\* ---------------------------------------------------------------- bounds
MaxTurns == 2        \* accepted message submissions in one session
ClockStart == 2      \* first Date.now() reading of the session
ClockSpan == 1       \* how far the clock advances during the session
MaxSuggestion == 1   \* how many of the suggestion chips the user clicks
MaxClock == ClockStart + ClockSpan

\* ---------------------------------------------------------------- strings
WhiteSpace == {" ", "\t", "\n"}

\* What the user types into either input: empty, whitespace only, and text
\* padded with whitespace on both sides.
Strings == {<<>>, <<" ">>, <<" ", "a", " ">>}

\* Texts the remote service puts in candidates[0].content.parts[0].text.
ReplyTexts == {<<>>, <<"r">>}

RECURSIVE TrimStart(_)
TrimStart(s) ==
    IF s # <<>> /\ Head(s) \in WhiteSpace THEN TrimStart(Tail(s)) ELSE s

RECURSIVE TrimEnd(_)
TrimEnd(s) ==
    IF s # <<>> /\ s[Len(s)] \in WhiteSpace
    THEN TrimEnd(SubSeq(s, 1, Len(s) - 1))
    ELSE s

\* String.prototype.trim
Trim(s) == TrimEnd(TrimStart(s))

\* ---------------------------------------------------------------- fixed texts
\* The three fixed texts, each a string no typed input and no modelled reply
\* equals (none of them is typed, suggested or replied in the model).
WelcomeText == <<"Hello! I'm your Eco-Waste Assistant, ...">>
ApologyText == <<"I apologize, but I couldn't process your request. ...">>
FallbackText == <<"I apologize, but I'm having trouble connecting ...">>

ToastNone == "none"
ToastApiKeyRequired == "API Key Required"
ToastApiKeySet == "API Key Set"
ToastError == "Error"

Suggestions ==
    << <<"H", "o", "w", " ", "t", "o", " ", "r", "e", "c", "y", "c", "l", "e",
        " ", "p", "l", "a", "s", "t", "i", "c", "?">>,
      <<"C", "o", "m", "p", "o", "s", "t", "i", "n", "g", " ", "t", "i", "p",
        "s">>,
      <<"B", "a", "t", "t", "e", "r", "y", " ", "d", "i", "s", "p", "o", "s",
        "a", "l">>,
      <<"E", "-", "w", "a", "s", "t", "e", " ", "m", "a", "n", "a", "g", "e",
        "m", "e", "n", "t">> >>

\* ---------------------------------------------------------------- state
VARIABLES
    mounted,          \* the mount effect (useEffect(..., [])) has run
    messages,         \* useState<Message[]>
    inputMessage,     \* useState('')
    apiKey,           \* useState('')
    isLoading,        \* useState(false)
    showApiKeyInput,  \* useState(true)
    toast,            \* title of the most recent toast() call
    calls,            \* every fetch issued, in order: [key, text]
    inflight,         \* suspended handleSendMessage invocations
    answered,         \* request numbers in the order their outcome was appended
    now               \* Date.now()

vars == <<mounted, messages, inputMessage, apiKey, isLoading, showApiKeyInput,
          toast, calls, inflight, answered, now>>

\* ---------------------------------------------------------------- messages
welcomeMessage(t) ==
    [id |-> 1, content |-> WelcomeText, sender |-> "bot", timestamp |-> t]

\* Variant: the human message is tagged with the assistant's sender.
userMessageAsBot(text, t) ==
    [id |-> t, content |-> text, sender |-> "bot", timestamp |-> t]

userMessage(text, t) ==
    [id |-> t, content |-> text, sender |-> "user", timestamp |-> t]

botMessage(text, t) ==
    [id |-> t + 1, content |-> text, sender |-> "bot", timestamp |-> t]

errorMessage(t) ==
    [id |-> t + 1, content |-> FallbackText, sender |-> "bot", timestamp |-> t]

Init ==
    /\ mounted = FALSE
    /\ messages = <<>>
    /\ inputMessage = <<>>
    /\ apiKey = <<>>
    /\ isLoading = FALSE
    /\ showApiKeyInput = TRUE
    /\ toast = ToastNone
    /\ calls = <<>>
    /\ inflight = {}
    /\ answered = <<>>
    /\ now = ClockStart

\* The wall clock advances between events.
Tick ==
    /\ now < MaxClock
    /\ now' = now + 1
    /\ UNCHANGED <<mounted, messages, inputMessage, apiKey, isLoading,
                   showApiKeyInput, toast, calls, inflight, answered>>

\* Variant: the effect has no dependency list and no emptiness gate, and
\* appends the welcome message after every render.
WelcomeEffectUngated ==
    /\ mounted' = TRUE
    /\ messages' = Append(messages, welcomeMessage(now))
    /\ UNCHANGED <<inputMessage, apiKey, isLoading, showApiKeyInput, toast,
                   calls, inflight, answered, now>>

\* useEffect(() => { if (messages.length === 0) setMessages([welcome]) }, [])
\* runs once, after the first render and before any event is handled.
WelcomeEffect ==
    /\ ~mounted
    /\ mounted' = TRUE
    /\ messages' = IF Len(messages) = 0 THEN <<welcomeMessage(now)>>
                   ELSE messages
    /\ UNCHANGED <<inputMessage, apiKey, isLoading, showApiKeyInput, toast,
                   calls, inflight, answered, now>>

\* ---------------------------------------------------------------- credential
\* Variant: the credential is tested without trimming it.
ApiKeyMissingNoTrim(key) == key = <<>>

\* Variant: the test is inverted.
ApiKeyMissingInverted(key) == Trim(key) # <<>>

\* if (!apiKey.trim())
ApiKeyMissing(key) == Trim(key) = <<>>

handleApiKeySubmit ==
    IF ApiKeyMissing(apiKey)
    THEN /\ toast' = ToastApiKeyRequired
         /\ UNCHANGED showApiKeyInput
    ELSE /\ showApiKeyInput' = FALSE
         /\ toast' = ToastApiKeySet

\* Variant: the credential input stays rendered in chatting mode.
ChangeApiKeyAlways(v) ==
    /\ mounted
    /\ apiKey' = v
    /\ UNCHANGED <<mounted, messages, inputMessage, isLoading,
                   showApiKeyInput, toast, calls, inflight, answered, now>>

\* onChange of the credential input, rendered only while showApiKeyInput
ChangeApiKey(v) ==
    /\ mounted
    /\ showApiKeyInput
    /\ apiKey' = v
    /\ UNCHANGED <<mounted, messages, inputMessage, isLoading,
                   showApiKeyInput, toast, calls, inflight, answered, now>>

\* onClick of the Connect button, rendered only while showApiKeyInput
ClickConnect ==
    /\ mounted
    /\ showApiKeyInput
    /\ handleApiKeySubmit
    /\ UNCHANGED <<mounted, messages, inputMessage, apiKey, isLoading,
                   calls, inflight, answered, now>>

\* ---------------------------------------------------------------- chat
\* Variant: the chat view is rendered in either mode.
ChatViewAlwaysRendered == TRUE

\* {!showApiKeyInput && (<Card> chat interface </Card>)}
ChatViewRendered == ~showApiKeyInput

\* Variant: the chat input stays enabled while a request is outstanding.
ChatInputNeverDisabled == FALSE

\* disabled={isLoading} on the chat input
ChatInputDisabled == isLoading

\* disabled={isLoading || !inputMessage.trim()} on the send button
SendDisabled == isLoading \/ Trim(inputMessage) = <<>>

\* disabled={isLoading} on the suggestion chips
SuggestionDisabled == isLoading

\* The model stops accepting submissions after MaxTurns of them.
CanSubmitMore == Len(calls) < MaxTurns

\* Variant: the utterance is tested without trimming it.
UtteranceBlankNoTrim(text) == text = <<>>

\* if (!inputMessage.trim()) return
UtteranceBlank(text) == Trim(text) = <<>>

\* handleSendMessage up to its first suspension: the await of fetch() inside
\* callGeminiAPI.  The fetch is issued in the same step.
handleSendMessage ==
    IF UtteranceBlank(inputMessage)
    THEN UNCHANGED <<messages, inputMessage, isLoading, toast, calls,
                     inflight, answered>>
    ELSE /\ messages' = Append(messages, userMessage(inputMessage, now))
         /\ inputMessage' = <<>>
         /\ isLoading' = TRUE
         /\ calls' = Append(calls, [key |-> apiKey, text |-> inputMessage])
         /\ inflight' = inflight \cup
                           {[req |-> Len(calls) + 1, stage |-> "fetch"]}
         /\ UNCHANGED <<toast, answered>>

KeyEvents == [key : {"Enter", "a"}, shiftKey : BOOLEAN]

\* onKeyPress of whichever input is rendered
handleKeyPress(e) ==
    IF e.key = "Enter" /\ ~e.shiftKey
    THEN IF showApiKeyInput
         THEN /\ handleApiKeySubmit
              /\ UNCHANGED <<messages, inputMessage, isLoading, calls,
                             inflight, answered>>
         ELSE /\ handleSendMessage
              /\ UNCHANGED showApiKeyInput
    ELSE UNCHANGED <<messages, inputMessage, isLoading, showApiKeyInput,
                     toast, calls, inflight, answered>>

KeyPress(e) ==
    /\ mounted
    /\ showApiKeyInput
       \/ (ChatViewRendered /\ ~ChatInputDisabled /\ CanSubmitMore)
    /\ handleKeyPress(e)
    /\ UNCHANGED <<mounted, apiKey, now>>

\* onChange of the chat input, rendered only when !showApiKeyInput
ChangeInput(v) ==
    /\ mounted
    /\ ChatViewRendered
    /\ ~ChatInputDisabled
    /\ inputMessage' = v
    /\ UNCHANGED <<mounted, messages, apiKey, isLoading, showApiKeyInput,
                   toast, calls, inflight, answered, now>>

\* onClick of the i-th suggestion chip
ClickSuggestion(i) ==
    /\ mounted
    /\ ChatViewRendered
    /\ ~SuggestionDisabled
    /\ i \in DOMAIN Suggestions
    /\ inputMessage' = Suggestions[i]
    /\ UNCHANGED <<mounted, messages, apiKey, isLoading, showApiKeyInput,
                   toast, calls, inflight, answered, now>>

\* onClick of the send button
ClickSend ==
    /\ mounted
    /\ ChatViewRendered
    /\ ~SendDisabled
    /\ CanSubmitMore
    /\ handleSendMessage
    /\ UNCHANGED <<mounted, apiKey, showApiKeyInput, now>>

\* ---------------------------------------------------------------- gateway
\* What fetch() settles with: a rejection, or a Response with its ok flag.
FetchOutcomes == {"reject", "notok", "ok"}

\* if (!response.ok) throw
FetchThrows(o) == o # "ok"

Absent == <<"undefined">>

\* What response.json() settles with: a rejection (valid = FALSE) or the
\* parsed body, whose candidates[0].content.parts[0].text may be absent.
Bodies ==
    {[valid |-> FALSE, text |-> Absent]} \cup
    {[valid |-> TRUE, text |-> t] : t \in ReplyTexts \cup {Absent}}

\* Variant: a body that does not parse is treated as an empty one.
JsonNeverThrows(b) == FALSE

\* await response.json() rejects
JsonThrows(b) == ~b.valid

\* Variant: a missing text is treated as a failed call.
ExtractTextOrFallback(b) ==
    IF b.text = Absent \/ b.text = <<>> THEN FallbackText ELSE b.text

\* data.candidates?.[0]?.content?.parts?.[0]?.text || "I apologize, ..."
ExtractText(b) ==
    IF b.text = Absent \/ b.text = <<>> THEN ApologyText ELSE b.text

\* Variant: the busy flag is not cleared when the request settles.
LoadingStaysSet == TRUE

\* finally { setIsLoading(false) }
LoadingAfterSettle == FALSE

\* Variant: the fallback message replaces the human message instead of
\* following it.
SettleFailureReplaces(inv) ==
    /\ toast' = ToastError
    /\ messages' = Append(SubSeq(messages, 1, Len(messages) - 1),
                          errorMessage(now))
    /\ isLoading' = LoadingAfterSettle
    /\ inflight' = inflight \ {inv}
    /\ answered' = Append(answered, inv.req)

\* catch (error) { toast(...); setMessages(prev => [...prev, errorMessage]) }
\* finally { setIsLoading(false) }
SettleFailure(inv) ==
    /\ toast' = ToastError
    /\ messages' = Append(messages, errorMessage(now))
    /\ isLoading' = LoadingAfterSettle
    /\ inflight' = inflight \ {inv}
    /\ answered' = Append(answered, inv.req)

\* setMessages(prev => [...prev, botMessage]); finally { setIsLoading(false) }
SettleSuccess(inv, text) ==
    /\ messages' = Append(messages, botMessage(text, now))
    /\ isLoading' = LoadingAfterSettle
    /\ inflight' = inflight \ {inv}
    /\ answered' = Append(answered, inv.req)
    /\ UNCHANGED toast

\* Variant: a failed fetch is retried once more instead of being reported.
FetchSettleRetries(inv, o) ==
    /\ inv \in inflight
    /\ inv.stage = "fetch"
    /\ IF FetchThrows(o)
       THEN /\ calls' = Append(calls, calls[inv.req])
            /\ UNCHANGED <<messages, isLoading, toast, answered, inflight>>
       ELSE /\ inflight' = (inflight \ {inv}) \cup
                              {[inv EXCEPT !.stage = "json"]}
            /\ UNCHANGED <<messages, isLoading, toast, answered, calls>>
    /\ UNCHANGED <<mounted, inputMessage, apiKey, showApiKeyInput, now>>

\* The awaited fetch() of invocation inv settles with outcome o.
FetchSettle(inv, o) ==
    /\ inv \in inflight
    /\ inv.stage = "fetch"
    /\ IF FetchThrows(o)
       THEN SettleFailure(inv)
       ELSE /\ inflight' = (inflight \ {inv}) \cup
                              {[inv EXCEPT !.stage = "json"]}
            /\ UNCHANGED <<messages, isLoading, toast, answered>>
    /\ UNCHANGED <<mounted, inputMessage, apiKey, showApiKeyInput, calls,
                   now>>

\* The awaited response.json() of invocation inv settles with b.
JsonSettle(inv, b) ==
    /\ inv \in inflight
    /\ inv.stage = "json"
    /\ IF JsonThrows(b)
       THEN SettleFailure(inv)
       ELSE SettleSuccess(inv, ExtractText(b))
    /\ UNCHANGED <<mounted, inputMessage, apiKey, showApiKeyInput, calls,
                   now>>

Invocations == [req : 1..(MaxTurns + 1), stage : {"fetch", "json"}]

Next ==
    \/ Tick
    \/ WelcomeEffect
    \/ \E v \in Strings : ChangeApiKey(v)
    \/ ClickConnect
    \/ \E e \in KeyEvents : KeyPress(e)
    \/ \E v \in Strings : ChangeInput(v)
    \/ \E i \in 1..MaxSuggestion : ClickSuggestion(i)
    \/ ClickSend
    \/ \E inv \in Invocations, o \in FetchOutcomes : FetchSettle(inv, o)
    \/ \E inv \in Invocations, b \in Bodies : JsonSettle(inv, b)

Spec == Init /\ [][Next]_vars

\* Every request eventually resolves: the pending fetch() and the pending
\* response.json() each settle, one way or the other.
Settle ==
    \/ \E inv \in Invocations, o \in FetchOutcomes : FetchSettle(inv, o)
    \/ \E inv \in Invocations, b \in Bodies : JsonSettle(inv, b)

LiveSpec == Init /\ [][Next]_vars /\ WF_vars(Settle)

\* ================================================================ properties
IsEnter(e) == e.key = "Enter" /\ ~e.shiftKey

\* A step that invokes handleSendMessage: the send button or Enter in the
\* chat input.
SubmitStep ==
    \/ ClickSend
    \/ \E e \in KeyEvents : IsEnter(e) /\ ~showApiKeyInput /\ KeyPress(e)

\* A step that invokes handleApiKeySubmit: the Connect button or Enter in the
\* credential input.
CredentialStep ==
    \/ ClickConnect
    \/ \E e \in KeyEvents : IsEnter(e) /\ showApiKeyInput /\ KeyPress(e)

\* A step in which a request's outcome is applied to the conversation.
ResolveStep == Len(answered') = Len(answered) + 1

\* A step in which the gateway call of some invocation fails.
FailStep ==
    \E inv \in Invocations :
        \/ FetchSettle(inv, "reject")
        \/ FetchSettle(inv, "notok")
        \/ JsonSettle(inv, [valid |-> FALSE, text |-> Absent])

AppendsOne == /\ Len(messages') = Len(messages) + 1
              /\ SubSeq(messages', 1, Len(messages)) = messages

Newest == messages'[Len(messages')]

HumanCount == Cardinality({i \in DOMAIN messages : messages[i].sender = "user"})

\* C1: while a request is outstanding (isLoading) no step appends a human
\* message or issues an outbound call, and at most one request is ever
\* outstanding.
C1_BusyBlocksSubmission ==
    /\ [](Cardinality(inflight) <= 1)
    /\ [][isLoading =>
            /\ calls' = calls
            /\ \/ messages' = messages
               \/ AppendsOne /\ Newest.sender = "bot"]_vars

C1_Witness ==
    /\ isLoading
    /\ Cardinality(inflight) = 1
    /\ Len(calls) = MaxTurns

\* C2: a submission in chatting mode, not busy, with a non-blank utterance
\* appends exactly one human message in that step; the step that resolves the
\* request appends exactly one assistant message directly after that human
\* message.
C2_HumanThenAssistant ==
    /\ [][(SubmitStep /\ ~showApiKeyInput /\ ~isLoading
             /\ Trim(inputMessage) # <<>>) =>
            /\ AppendsOne
            /\ Newest.sender = "user"
            /\ Newest.content = inputMessage]_vars
    /\ [][ResolveStep =>
            /\ AppendsOne
            /\ Newest.sender = "bot"
            /\ messages[Len(messages)].sender = "user"
            /\ messages[Len(messages)].content
                   = calls[answered'[Len(answered')]].text]_vars

C2_Witness ==
    /\ Len(messages) = 3
    /\ messages[2].sender = "user"
    /\ messages[3].sender = "bot"
    /\ ~isLoading

\* C3 (as claimed): the ids of the messages of the conversation are pairwise
\* distinct.
C3_UniqueIds ==
    \A i, j \in DOMAIN messages : i # j => messages[i].id # messages[j].id

\* C4: when the gateway call fails (fetch rejects, the status is not ok, or
\* the body does not parse) exactly one assistant message holding the fixed
\* fallback text is appended, directly after the human message.
C4_FailureAppendsFallback ==
    [][FailStep =>
         /\ AppendsOne
         /\ Newest.sender = "bot"
         /\ Newest.content = FallbackText
         /\ messages[Len(messages)].sender = "user"]_vars

C4_Witness ==
    /\ Len(messages) = 3
    /\ messages[3].content = FallbackText
    /\ toast = ToastError

\* C5: once the session is mounted the conversation starts with the welcome
\* message, which is an assistant message and occurs exactly once; any second
\* message is a human one, so exactly one assistant message precedes the
\* first human message.
C5_WelcomeSeededOnce ==
    /\ ~mounted => messages = <<>>
    /\ mounted =>
         /\ Len(messages) >= 1
         /\ messages[1].sender = "bot"
         /\ messages[1].content = WelcomeText
         /\ {i \in DOMAIN messages : messages[i].content = WelcomeText} = {1}
         /\ Len(messages) >= 2 => messages[2].sender = "user"

C5_Witness ==
    /\ mounted
    /\ Len(messages) = 1 + 2 * MaxTurns
    /\ messages[1].content = WelcomeText

\* C6: submitting an empty or whitespace-only credential raises the warning
\* and leaves the mode, the credential, the conversation and the busy flag
\* unchanged.
C6_BlankCredentialRejected ==
    [][(CredentialStep /\ Trim(apiKey) = <<>>) =>
         /\ toast' = ToastApiKeyRequired
         /\ showApiKeyInput /\ showApiKeyInput'
         /\ UNCHANGED <<apiKey, messages, isLoading>>]_vars

C6_Witness ==
    /\ showApiKeyInput
    /\ apiKey = <<" ">>
    /\ toast = ToastApiKeyRequired

\* C7: submitting a non-blank credential moves the mode to chatting, and once
\* the mode is chatting it stays chatting (so the transition happens once).
C7_CredentialAcceptedOnce ==
    /\ [][(CredentialStep /\ Trim(apiKey) # <<>>) => ~showApiKeyInput']_vars
    /\ [][~showApiKeyInput => ~showApiKeyInput']_vars

C7_Witness ==
    /\ ~showApiKeyInput
    /\ toast = ToastApiKeySet
    /\ Trim(apiKey) = <<"a">>

\* C8: after the welcome message the conversation alternates human,
\* assistant; the k-th human message carries the text of the k-th request and
\* the k-th outcome appended is that of the k-th request.
C8_RepliesInRequestOrder ==
    /\ \A i \in DOMAIN messages :
         i >= 2 => messages[i].sender = (IF i % 2 = 0 THEN "user" ELSE "bot")
    /\ \A k \in DOMAIN answered : answered[k] = k
    /\ \A k \in DOMAIN calls :
         /\ 2 * k <= Len(messages)
         /\ messages[2 * k].content = calls[k].text
    /\ mounted => Len(messages) = 1 + Len(calls) + Len(answered)

C8_Witness ==
    /\ Len(messages) = 5
    /\ answered = <<1, 2>>

\* C9: every outbound call carries a credential that is not blank.
C9_CallsCarryCredential ==
    \A i \in DOMAIN calls : Trim(calls[i].key) # <<>>

C9_Witness ==
    /\ Len(calls) >= 1
    /\ calls[1].key # Trim(calls[1].key)

\* C10: every resolution, success or failure, clears the busy flag; given
\* that every request eventually resolves, busy is eventually false; and when
\* not busy in chatting mode a non-blank utterance can be submitted (within
\* the modelled number of turns).
C10_BusyEventuallyClears ==
    /\ [][ResolveStep => ~isLoading']_vars
    /\ isLoading ~> ~isLoading
    /\ [](( /\ mounted /\ ~showApiKeyInput /\ ~isLoading
           /\ Trim(inputMessage) # <<>> /\ CanSubmitMore)
          => ENABLED (SubmitStep /\ Len(calls') = Len(calls) + 1))

C10_Witness ==
    /\ Len(calls) = 2
    /\ messages[3].content = FallbackText
    /\ isLoading

BotRepliesCount ==
    Cardinality({i \in DOMAIN messages : i # 1 /\ messages[i].sender = "bot"})

C12_AppendOnly ==
    [][/\ Len(messages') >= Len(messages)
       /\ SubSeq(messages', 1, Len(messages)) = messages]_vars

C12_Witness ==
    /\ Len(messages) = 5
    /\ messages[3].content = FallbackText
    /\ messages[5].content = <<"r">>

\* C13: in awaiting-credential mode no human message exists, no call was
\* issued and none is outstanding, and no step changes the conversation, the
\* calls, the busy flag or the chat input.
C13_AwaitingAcceptsOnlyCredential ==
    /\ [](showApiKeyInput =>
            /\ HumanCount = 0
            /\ calls = <<>>
            /\ inflight = {}
            /\ ~isLoading
            /\ inputMessage = <<>>)
    /\ [][(showApiKeyInput /\ mounted) =>
            UNCHANGED <<messages, calls, inflight, isLoading,
                        inputMessage>>]_vars

C13_Witness ==
    /\ mounted
    /\ showApiKeyInput
    /\ toast = ToastApiKeyRequired
    /\ Trim(apiKey) = <<"a">>

\* C14: a message submission whose utterance is empty or whitespace-only
\* leaves the conversation, the busy flag, the input text and the calls
\* unchanged.
C14_BlankUtteranceNoOp ==
    [][(SubmitStep /\ ~showApiKeyInput /\ Trim(inputMessage) = <<>>) =>
         UNCHANGED <<messages, isLoading, inputMessage, calls, inflight>>]_vars

C14_Witness ==
    /\ ~showApiKeyInput
    /\ ~isLoading
    /\ inputMessage = <<" ">>
    /\ Len(calls) = 1

\* C15: an accepted submission issues exactly one call, a failing call issues
\* none, and the number of calls equals the number of human messages.
C15_OneCallPerSubmission ==
    /\ [](Len(calls) = HumanCount)
    /\ [][(SubmitStep /\ ~showApiKeyInput /\ Trim(inputMessage) # <<>>) =>
            /\ Len(calls') = Len(calls) + 1
            /\ SubSeq(calls', 1, Len(calls)) = calls
            /\ calls'[Len(calls')].text = inputMessage]_vars
    /\ [][FailStep => calls' = calls]_vars

C15_Witness ==
    /\ Len(calls) = 1
    /\ HumanCount = 1
    /\ Len(messages) = 3
    /\ messages[3].content = FallbackText
    /\ ~isLoading

\* C16: the busy flag is set exactly when a request is outstanding, and the
\* human messages number the assistant messages other than the welcome, plus
\* one when busy.
C16_BusyMatchesOutstanding ==
    /\ isLoading <=> inflight # {}
    /\ HumanCount = BotRepliesCount + (IF isLoading THEN 1 ELSE 0)

C16_Witness ==
    /\ isLoading
    /\ inflight # {}
    /\ HumanCount = 2
    /\ BotRepliesCount = 1

\* C17: in chatting mode no step changes the credential, and every call
\* carries the credential that was accepted.
C17_CredentialFrozen ==
    /\ [][~showApiKeyInput => apiKey' = apiKey]_vars
    /\ [](\A i \in DOMAIN calls : calls[i].key = apiKey)

C17_Witness ==
    /\ ~showApiKeyInput
    /\ Len(calls) = 2
    /\ calls[1].key = calls[2].key
    /\ inputMessage = Suggestions[1]

====
